---------------------------- MODULE Spec2Model ----------------------------
(***************************************************************************)
(* Request-governance and session-rotation subsystem of Insta-Analyzer:    *)
(* SessionManager (src/session_manager.py), RequestThrottler,              *)
(*                                                                         *)
(* intelligent_retry and AdaptiveRateLimiter (src/rate_limiter.py).         *)
(*                                                                         *)
(* Time is counted in whole seconds.  Each component has specifications of *)
(* its own (Spec, FaultySpec, CrashSpec and ConcSpec for the session       *)
(* store; ThrottlerSpec and ThrottlerConcSpec; RetrySpec; RateSpec); the   *)
(* variables of the other components stay at their initial values.         *)
(***************************************************************************)
EXTENDS Integers, Sequences, FiniteSets, TLC

VARIABLES
    sessions,   \* SessionManager.sessions: the in-memory pool, in insertion order
    file,       \* content of sessions_file on disk
    tmp,        \* content of sessions_file + ".tmp" on disk
    keyfile,    \* content of KEY_FILE on disk
    use_encryption, \* USE_ENCRYPTION, read from the environment at import
    now,        \* what time.time() returns
    last,       \* the call of the session store that returned last
    faults,     \* saves the operating system has failed so far
    load_error, \* _load_sessions of this instance logged "Failed to load sessions"
    handed,     \* <<sessionid, time>> of the sessions get_next_session returned to
                \* the single caller since the last other call, the latest last
    th,         \* the callers inside a call of the store: position and locals
    rpm,        \* RequestThrottler.requests_per_minute
    interval,   \* RequestThrottler._interval
    last_ts,    \* RequestThrottler._last_ts
    released,   \* times at which the throttler released its last two requests
    tlast,      \* the call of the throttler that returned last
    tth,        \* the callers inside can_make_request: position and locals
    policy,     \* intelligent_retry's max_retries, base_delay, max_delay
    rpc,        \* position of the running wrapper call
    attempt,    \* wrapper's local attempt
    calls,      \* invocations of func made by the running wrapper call
    failures,   \* invocations of func that raised, in the running wrapper call
    sleeps,     \* time.sleep calls completed by the running wrapper call
    err,        \* the exception caught last (e)
    wait,       \* the backoff computed last, in tenths of a second
    outcome,    \* how the wrapper call ended
    strategy,   \* AdaptiveRateLimiter.strategy
    success_count,          \* AdaptiveRateLimiter.success_count
    failure_count,          \* AdaptiveRateLimiter.failure_count
    consecutive_failures,   \* AdaptiveRateLimiter.consecutive_failures
    last_request_time,      \* AdaptiveRateLimiter.last_request_time
    rlog,       \* the record_success and record_failure calls made, in order
    rlast       \* the call of the rate limiter that returned last

vars == <<sessions, file, tmp, keyfile, use_encryption, now, last, faults, th,
          load_error, handed,
          rpm, interval, last_ts, released, tlast, tth,
          policy, rpc, attempt, calls, failures, sleeps, err, wait, outcome,
          strategy, success_count, failure_count, consecutive_failures,
          last_request_time, rlog, rlast>>

storeVars == <<sessions, file, tmp, keyfile, use_encryption, last, faults, th,
               load_error, handed>>
throttlerVars == <<rpm, interval, last_ts, released, tlast, tth>>
retryVars == <<policy, rpc, attempt, calls, failures, sleeps, err, wait, outcome>>
rateVars == <<strategy, success_count, failure_count, consecutive_failures,
              last_request_time, rlog, rlast>>

---------------------------------------------------------------------------
(* Bounds of the model *)

MaxSessions == 2        \* distinct sessionids offered to add_session
MaxTime == 2            \* the session store's clock runs from 1 to MaxTime
MaxFailureCount == 6    \* mark_session_failure is not called beyond this count
MaxSuccessCount == 1    \* mark_session_success is not called beyond this count
ThrottlerStart == 3     \* time.time() when the throttler is constructed
MaxClock == 10          \* the throttler's clock runs from ThrottlerStart to MaxClock
MaxOversleep == 1       \* time.sleep(w) returns after w to w + MaxOversleep seconds
MaxRetries == 3         \* max_retries is drawn from 0..MaxRetries
MaxFaults == 2          \* saves the operating system fails in one behaviour
MaxRecords == 5         \* record_success and record_failure calls in one behaviour
MaxRateClock == 40      \* the rate limiter's clock runs from 1 to MaxRateClock
MaxSuccesses == 10      \* successes recorded before the delays are looked at
MaxFailures == 13       \* failures recorded before the delays are looked at

---------------------------------------------------------------------------
(* Values *)

SessionIds == 1..MaxSessions
NoSession == 0                      \* Python's None where a session is expected
NoUser == "None"                    \* Python's None where a username is expected
Username(id) == IF id = 1 THEN NoUser ELSE "alice"
\* The calls add_session(sessionid, username) the callers make
Adds == {<<id, Username(id)>> : id \in SessionIds}
Keys == {"k1"}                      \* what Fernet.generate_key() may return

Threads == {1, 2}                   \* the threads that call one instance

Absent == [kind |-> "absent"]       \* the path does not exist
Partial == [kind |-> "partial"]     \* a payload whose write did not complete

FAILURE_THRESHOLD == 5               \* the deactivation threshold of mark_session_failure

Max(a, b) == IF a >= b THEN a ELSE b
Min(a, b) == IF a <= b THEN a ELSE b

---------------------------------------------------------------------------
(* SessionData *)

SessionData(sessionid, username, created_at) ==
    [sessionid |-> sessionid, username |-> username, created_at |-> created_at,
     last_used |-> 0, success_count |-> 0, failure_count |-> 0,
     is_active |-> TRUE]

(* asdict: the fields as key/value pairs, in declaration order *)
to_dict(s) ==
    << <<"sessionid", s.sessionid>>, <<"username", s.username>>,
       <<"created_at", s.created_at>>, <<"last_used", s.last_used>>,
       <<"success_count", s.success_count>>,
       <<"failure_count", s.failure_count>>, <<"is_active", s.is_active>> >>

(* dict.get(key, default) *)
DictGet(d, key, default) ==
    IF \E i \in 1..Len(d) : d[i][1] = key
    THEN d[CHOOSE i \in 1..Len(d) : d[i][1] = key][2]
    ELSE default

(* from_dict without the key "is_active": every session loads as active *)
FromDictAlwaysActive(d) ==
    [sessionid |-> DictGet(d, "sessionid", NoSession),
     username |-> DictGet(d, "username", NoUser),
     created_at |-> DictGet(d, "created_at", 0),
     last_used |-> DictGet(d, "last_used", 0),
     success_count |-> DictGet(d, "success_count", 0),
     failure_count |-> DictGet(d, "failure_count", 0),
     is_active |-> TRUE]

from_dict(d) ==
    [sessionid |-> DictGet(d, "sessionid", NoSession),
     username |-> DictGet(d, "username", NoUser),
     created_at |-> DictGet(d, "created_at", 0),
     last_used |-> DictGet(d, "last_used", 0),
     success_count |-> DictGet(d, "success_count", 0),
     failure_count |-> DictGet(d, "failure_count", 0),
     is_active |-> DictGet(d, "is_active", TRUE)]


---------------------------------------------------------------------------
(* Persistence *)

(* json.dumps of the list of dicts, then fernet.encrypt when a key is given. *)
(* A Fernet token is modelled by its key and its plaintext.                  *)
Payload(pool, key) ==
    LET doc == [kind |-> "json", doc |-> [i \in 1..Len(pool) |-> to_dict(pool[i])]]
    IN  IF key = Absent THEN doc
        ELSE [kind |-> "fernet", key |-> key.key, plain |-> doc]

(* _get_fernet: the key file after the call; it is created when encryption  *)
(* is enabled and it does not exist.                                        *)
get_fernet(enc, kf, newkey) ==
    IF ~enc THEN kf
    ELSE IF kf = Absent THEN [kind |-> "key", key |-> newkey] ELSE kf

SaveOutcomes == {"ok", "open_failed", "write_failed", "replace_failed"}

(* _save_sessions_atomic: the files after the call.  o is the step at which *)
(* the operating system fails the save, or "ok"; every exception is caught. *)
save_sessions_atomic(pool, enc, f, t, kf, o, newkey) ==
    LET kf2 == get_fernet(enc, kf, newkey)
        payload == Payload(pool, IF enc THEN kf2 ELSE Absent)
    IN  CASE o = "open_failed" -> [file |-> f, tmp |-> t, keyfile |-> kf2]
          [] o = "write_failed" -> [file |-> f, tmp |-> Partial, keyfile |-> kf2]
          [] o = "replace_failed" -> [file |-> f, tmp |-> payload, keyfile |-> kf2]
          [] OTHER -> [file |-> payload, tmp |-> Absent, keyfile |-> kf2]

(* The call self._save_sessions_atomic() made by a handler on the new pool. *)
Save(pool, o, newkey) ==
    LET r == save_sessions_atomic(pool, use_encryption, file, tmp, keyfile, o, newkey)
    IN  /\ file' = r.file
        /\ tmp' = r.tmp
        /\ keyfile' = r.keyfile
        /\ faults' = IF o = "ok" THEN faults ELSE faults + 1

NoSave == UNCHANGED <<file, tmp, keyfile, faults>>

(* _load_sessions on a file content: the pool it yields. *)
load_sessions(f, enc, kf) ==
    IF f = Absent THEN <<>>
    ELSE IF enc
         THEN IF f.kind = "fernet" /\ kf # Absent /\ f.key = kf.key
              THEN [i \in 1..Len(f.plain.doc) |-> from_dict(f.plain.doc[i])]
              ELSE <<>>
         ELSE IF f.kind = "json"
              THEN [i \in 1..Len(f.doc) |-> from_dict(f.doc[i])]
              ELSE <<>>

(* _load_sessions took its except branch (logger.error): the file exists   *)
(* and is not a payload the instance can decrypt and parse.                *)
load_failed(f, enc, kf) ==
    /\ f # Absent
    /\ IF enc THEN ~(f.kind = "fernet" /\ kf # Absent /\ f.key = kf.key)
              ELSE f.kind # "json"

---------------------------------------------------------------------------
(* SessionManager *)

(* A thread that is not inside a call of the store. *)
IdleThread ==
    [pc |-> "idle", op |-> "none", sessionid |-> NoSession, before |-> <<>>,
     payload |-> Absent, fd |-> "closed", ret |-> NoSession, save |-> "not_called"]

(* a save whose exception reaches the caller of the handler *)
Propagated(o) == IF o = "ok" THEN o ELSE "raised"

(* except Exception as e: logger.error(...): a failed save is logged and    *)
(* _save_sessions_atomic returns; the handler goes on to its return.        *)
Logged(o) == o

(* The throttler and the retry wrapper take no part in a call of the store. *)
StoreOnly == UNCHANGED <<throttlerVars, retryVars, rateVars>>

(* the duplicate check looking at the first session only *)
FirstIsPresent(pool, sessionid) ==
    pool # <<>> /\ pool[1].sessionid = sessionid

(* for s in self.sessions: if s.sessionid == sessionid: ... return *)
AlreadyPresent(pool, sessionid) ==
    \E i \in 1..Len(pool) : pool[i].sessionid = sessionid

Called(op, sessionid, ret, save) ==
    [op |-> op, sessionid |-> sessionid, ret |-> ret, save |-> save]

(* Index of the first session of the pool with this sessionid, 0 if none. *)
IndexOf(pool, sessionid) ==
    IF \E i \in 1..Len(pool) : pool[i].sessionid = sessionid
    THEN CHOOSE i \in 1..Len(pool) :
            /\ pool[i].sessionid = sessionid
            /\ \A j \in 1..(i-1) : pool[j].sessionid # sessionid
    ELSE 0

(* the sort key with its components swapped: (s.last_used, s.failure_count) *)
KeyLessSwapped(a, b) ==
    \/ a.last_used < b.last_used
    \/ a.last_used = b.last_used /\ a.failure_count < b.failure_count

(* The sort key (s.failure_count, s.last_used), compared as Python tuples. *)
KeyLess(a, b) ==
    \/ a.failure_count < b.failure_count
    \/ a.failure_count = b.failure_count /\ a.last_used < b.last_used

(* list.sort is stable: an index goes behind the indices whose key is not   *)
(* greater.                                                                 *)
RECURSIVE Insert(_, _, _)
Insert(pool, sorted, x) ==
    IF sorted = <<>> THEN <<x>>
    ELSE IF KeyLess(pool[x], pool[Head(sorted)]) THEN <<x>> \o sorted
    ELSE <<Head(sorted)>> \o Insert(pool, Tail(sorted), x)

RECURSIVE SortByKey(_, _)
SortByKey(pool, idxs) ==
    IF idxs = <<>> THEN <<>>
    ELSE Insert(pool, SortByKey(pool, SubSeq(idxs, 1, Len(idxs) - 1)), idxs[Len(idxs)])

(* the list comprehension without its filter: if s.is_active *)
RECURSIVE AllFrom(_, _)
AllFrom(pool, i) ==
    IF i > Len(pool) THEN <<>> ELSE <<i>> \o AllFrom(pool, i + 1)

(* Indices of the active sessions, in pool order. *)
RECURSIVE ActiveFrom(_, _)
ActiveFrom(pool, i) ==
    IF i > Len(pool) THEN <<>>
    ELSE (IF pool[i].is_active THEN <<i>> ELSE <<>>) \o ActiveFrom(pool, i + 1)

active_sessions(pool) == ActiveFrom(pool, 1)

(* The index get_next_session selects: active_sessions[0] after the sort. *)
Selected(pool) == SortByKey(pool, active_sessions(pool))[1]

(* mark_session_success without the line s.is_active = True *)
MarkSuccessKeepsActive(s) ==
    [s EXCEPT !.success_count = @ + 1, !.failure_count = Max(0, @ - 1)]

(* mark_session_success without the floor max(0, ...) *)
MarkSuccessNoFloor(s) ==
    [s EXCEPT !.success_count = @ + 1,
              !.failure_count = @ - 1,
              !.is_active = TRUE]

MarkSuccessUpdate(s) ==
    [s EXCEPT !.success_count = @ + 1,
              !.failure_count = Max(0, @ - 1),
              !.is_active = TRUE]

(* mark_session_failure without its deactivation *)
MarkFailureNeverDeactivates(s) ==
    [s EXCEPT !.failure_count = @ + 1]

(* mark_session_failure with > in place of >= *)
MarkFailureLate(s) ==
    LET fc == s.failure_count + 1
    IN  [s EXCEPT !.failure_count = fc,
                  !.is_active = IF fc > FAILURE_THRESHOLD THEN FALSE ELSE @]

MarkFailureUpdate(s) ==
    LET fc == s.failure_count + 1
    IN  [s EXCEPT !.failure_count = fc,
                  !.is_active = IF fc >= FAILURE_THRESHOLD THEN FALSE ELSE @]

ReactivateUpdate(s) ==
    [s EXCEPT !.failure_count = 0, !.is_active = TRUE]

add_session(sessionid, username, o, newkey) ==
    /\ IF AlreadyPresent(sessions, sessionid)
       THEN /\ UNCHANGED sessions
            /\ NoSave
            /\ last' = Called("add_session", sessionid, NoSession, "not_called")
       ELSE /\ sessions' = Append(sessions, SessionData(sessionid, username, now))
            /\ Save(sessions', o, newkey)
            /\ last' = Called("add_session", sessionid, NoSession, Logged(o))
    /\ handed' = <<>>
    /\ UNCHANGED <<use_encryption, now, th, load_error>>
    /\ StoreOnly

(* The sessions returned lately, with the one returned now; it keeps as   *)
(* many as a full turn of the pool needs.                                 *)
Handed(h, sessionid, t) ==
    LET w == Append(h, <<sessionid, t>>)
    IN  IF Len(w) > MaxSessions - 1 THEN Tail(w) ELSE w

(* get_next_session without the line session.last_used = time.time() *)
get_next_session_keeps_last_used(o, newkey) ==
    /\ IF active_sessions(sessions) = <<>>
       THEN /\ UNCHANGED sessions
            /\ NoSave
            /\ handed' = <<>>
            /\ last' = Called("get_next_session", NoSession, NoSession, "not_called")
       ELSE LET i == Selected(sessions)
            IN  /\ sessions' = sessions
                /\ Save(sessions', o, newkey)
                /\ handed' = Handed(handed, sessions[i].sessionid, now)
                /\ last' = Called("get_next_session", NoSession,
                                  sessions[i].sessionid, Logged(o))
    /\ UNCHANGED <<use_encryption, now, th, load_error>>
    /\ StoreOnly

get_next_session(o, newkey) ==
    /\ IF active_sessions(sessions) = <<>>
       THEN /\ UNCHANGED sessions
            /\ NoSave
            /\ handed' = <<>>
            /\ last' = Called("get_next_session", NoSession, NoSession, "not_called")
       ELSE LET i == Selected(sessions)
            IN  /\ sessions' = [sessions EXCEPT ![i].last_used = now]
                /\ Save(sessions', o, newkey)
                /\ handed' = Handed(handed, sessions[i].sessionid, now)
                /\ last' = Called("get_next_session", NoSession,
                                  sessions[i].sessionid, Logged(o))
    /\ UNCHANGED <<use_encryption, now, th, load_error>>
    /\ StoreOnly

(* the loop without its test of the sessionid and without its break *)
SuccessMarkedAll(pool, sessionid) ==
    [i \in 1..Len(pool) |-> MarkSuccessUpdate(pool[i])]

(* a mark_session_failure that takes the session out of the pool when it   *)
(* reaches the threshold                                                   *)
FailureMarkedDrops(pool, sessionid) ==
    LET i == IndexOf(pool, sessionid)
    IN  IF i = 0 THEN pool
        ELSE IF pool[i].failure_count + 1 >= FAILURE_THRESHOLD
             THEN SubSeq(pool, 1, i - 1) \o SubSeq(pool, i + 1, Len(pool))
             ELSE [pool EXCEPT ![i] = MarkFailureUpdate(pool[i])]

(* for s in self.sessions: if s.sessionid == sessionid: <update>; break *)
(* mark_session_success's loop over the pool *)
SuccessMarked(pool, sessionid) ==
    LET i == IndexOf(pool, sessionid)
    IN  IF i = 0 THEN pool ELSE [pool EXCEPT ![i] = MarkSuccessUpdate(pool[i])]

(* mark_session_failure's loop over the pool *)
FailureMarked(pool, sessionid) ==
    LET i == IndexOf(pool, sessionid)
    IN  IF i = 0 THEN pool ELSE [pool EXCEPT ![i] = MarkFailureUpdate(pool[i])]

(* reactivate_session's loop over the pool *)
Reactivated(pool, sessionid) ==
    LET i == IndexOf(pool, sessionid)
    IN  IF i = 0 THEN pool ELSE [pool EXCEPT ![i] = ReactivateUpdate(pool[i])]

mark_session_success(sessionid, o, newkey) ==
    /\ LET i == IndexOf(sessions, sessionid)
       IN  i # 0 => sessions[i].success_count < MaxSuccessCount
    /\ sessions' = SuccessMarked(sessions, sessionid)
    /\ Save(sessions', o, newkey)
    /\ last' = Called("mark_session_success", sessionid, NoSession, Logged(o))
    /\ handed' = <<>>
    /\ UNCHANGED <<use_encryption, now, th, load_error>>
    /\ StoreOnly

mark_session_failure(sessionid, o, newkey) ==
    /\ LET i == IndexOf(sessions, sessionid)
       IN  i # 0 => sessions[i].failure_count < MaxFailureCount
    /\ sessions' = FailureMarked(sessions, sessionid)
    /\ Save(sessions', o, newkey)
    /\ last' = Called("mark_session_failure", sessionid, NoSession, Logged(o))
    /\ handed' = <<>>
    /\ UNCHANGED <<use_encryption, now, th, load_error>>
    /\ StoreOnly

reactivate_session(sessionid, o, newkey) ==
    /\ sessions' = Reactivated(sessions, sessionid)
    /\ Save(sessions', o, newkey)
    /\ last' = Called("reactivate_session", sessionid, NoSession, Logged(o))
    /\ handed' = <<>>
    /\ UNCHANGED <<use_encryption, now, th, load_error>>
    /\ StoreOnly

(* a constructor that removes a sessions file it cannot load *)
construct_discards(newkey) ==
    /\ sessions' = load_sessions(file, use_encryption, keyfile)
    /\ keyfile' = IF file = Absent THEN keyfile
                  ELSE get_fernet(use_encryption, keyfile, newkey)
    /\ load_error' = load_failed(file, use_encryption, keyfile)
    /\ handed' = <<>>
    /\ file' = IF load_error' THEN Absent ELSE file
    /\ last' = Called("construct", NoSession, NoSession, "not_called")
    /\ UNCHANGED <<tmp, faults, use_encryption, now, th>>
    /\ StoreOnly

(* SessionManager.__init__ on the files as they are: the process starts    *)
(* again.  _load_sessions calls _get_fernet when the sessions file exists. *)
construct(newkey) ==
    /\ sessions' = load_sessions(file, use_encryption, keyfile)
    /\ keyfile' = IF file = Absent THEN keyfile
                  ELSE get_fernet(use_encryption, keyfile, newkey)
    /\ load_error' = load_failed(file, use_encryption, keyfile)
    /\ handed' = <<>>
    /\ last' = Called("construct", NoSession, NoSession, "not_called")
    /\ UNCHANGED <<file, tmp, faults, use_encryption, now, th>>
    /\ StoreOnly

(* time.time() moves on between two calls *)
Tick ==
    /\ now < MaxTime
    /\ now' = now + 1
    /\ last' = Called("tick", NoSession, NoSession, "not_called")
    /\ NoSave
    /\ UNCHANGED <<sessions, use_encryption, th, load_error, handed>>
    /\ StoreOnly


---------------------------------------------------------------------------
(* SessionManager, statement by statement: the calls of several threads on *)
(* one instance, and the process stopping inside a call.  The store holds  *)
(* no lock; a thread may be suspended between any two of these steps.      *)

ThreadsOnly == UNCHANGED <<use_encryption, now, faults, load_error, handed>>

(* One thread moves on; the others stay where they are. *)
Moved(t, rec) == [th EXCEPT ![t] = rec]

Entered(t, op, sessionid) ==
    [th[t] EXCEPT !.op = op, !.sessionid = sessionid, !.before = sessions]

(* Bytes of a float in the JSON text: 0.0, or a time of day. *)
TimeLen(x) == IF x = 0 THEN 3 ELSE 17
(* Bytes of true and of false. *)
BoolLen(b) == IF b THEN 4 ELSE 5

(* Bytes one session takes in json.dumps(data, indent=2); the sessionid,   *)
(* the username, the one-digit counters and the layout take EntryBase.     *)
EntryBase == 150
EntrySize(d) ==
    EntryBase + TimeLen(DictGet(d, "created_at", 0))
              + TimeLen(DictGet(d, "last_used", 0))
              + BoolLen(DictGet(d, "is_active", TRUE))

RECURSIVE DocSize(_)
DocSize(doc) ==
    IF doc = <<>> THEN 2 ELSE EntrySize(Head(doc)) + DocSize(Tail(doc))

(* Bytes of a file content; a Fernet token grows by AES blocks of 16. *)
Size(f) ==
    CASE f.kind = "json" -> DocSize(f.doc)
      [] f.kind = "fernet" -> 16 * (DocSize(f.plain.doc) \div 16 + 1)
      [] f.kind = "garbled" -> f.size
      [] OTHER -> 0

(* f.write(payload) from offset 0 on an open file that holds old: what is  *)
(* longer than the payload stays behind it.                                *)
Overwrite(old, payload) ==
    IF Size(payload) >= Size(old) THEN payload
    ELSE [kind |-> "garbled", size |-> Size(old)]

(* add_session up to its call of _save_sessions_atomic *)
T_add_session(t, sessionid, username) ==
    /\ th[t].pc = "idle"
    /\ IF AlreadyPresent(sessions, sessionid)
       THEN /\ UNCHANGED sessions
            /\ th' = Moved(t, [Entered(t, "add_session", sessionid)
                                  EXCEPT !.pc = "saved", !.save = "not_called"])
       ELSE /\ sessions' = Append(sessions, SessionData(sessionid, username, now))
            /\ th' = Moved(t, [Entered(t, "add_session", sessionid)
                                  EXCEPT !.pc = "mutated"])
    /\ UNCHANGED <<file, tmp, keyfile, last>>
    /\ ThreadsOnly
    /\ StoreOnly

(* get_next_session: the filter, the sort and session = active_sessions[0] *)
T_get_next_session(t) ==
    /\ th[t].pc = "idle"
    /\ IF active_sessions(sessions) = <<>>
       THEN th' = Moved(t, [Entered(t, "get_next_session", NoSession)
                               EXCEPT !.pc = "saved", !.save = "not_called"])
       ELSE th' = Moved(t, [Entered(t, "get_next_session", NoSession)
                               EXCEPT !.pc = "picked",
                                      !.ret = sessions[Selected(sessions)].sessionid])
    /\ UNCHANGED <<sessions, file, tmp, keyfile, last>>
    /\ ThreadsOnly
    /\ StoreOnly

(* session.last_used = time.time() *)
T_touch(t) ==
    /\ th[t].pc = "picked"
    /\ sessions' = [sessions EXCEPT ![IndexOf(sessions, th[t].ret)].last_used = now]
    /\ th' = Moved(t, [th[t] EXCEPT !.pc = "mutated"])
    /\ UNCHANGED <<file, tmp, keyfile, last>>
    /\ ThreadsOnly
    /\ StoreOnly

(* mark_session_success up to its call of _save_sessions_atomic *)
T_mark_session_success(t, sessionid) ==
    /\ th[t].pc = "idle"
    /\ LET i == IndexOf(sessions, sessionid)
       IN  i # 0 => sessions[i].success_count < MaxSuccessCount
    /\ sessions' = SuccessMarked(sessions, sessionid)
    /\ th' = Moved(t, [Entered(t, "mark_session_success", sessionid)
                          EXCEPT !.pc = "mutated"])
    /\ UNCHANGED <<file, tmp, keyfile, last>>
    /\ ThreadsOnly
    /\ StoreOnly

(* mark_session_failure up to its call of _save_sessions_atomic *)
T_mark_session_failure(t, sessionid) ==
    /\ th[t].pc = "idle"
    /\ LET i == IndexOf(sessions, sessionid)
       IN  i # 0 => sessions[i].failure_count < MaxFailureCount
    /\ sessions' = FailureMarked(sessions, sessionid)
    /\ th' = Moved(t, [Entered(t, "mark_session_failure", sessionid)
                          EXCEPT !.pc = "mutated"])
    /\ UNCHANGED <<file, tmp, keyfile, last>>
    /\ ThreadsOnly
    /\ StoreOnly

(* reactivate_session up to its call of _save_sessions_atomic *)
T_reactivate_session(t, sessionid) ==
    /\ th[t].pc = "idle"
    /\ sessions' = Reactivated(sessions, sessionid)
    /\ th' = Moved(t, [Entered(t, "reactivate_session", sessionid)
                          EXCEPT !.pc = "mutated"])
    /\ UNCHANGED <<file, tmp, keyfile, last>>
    /\ ThreadsOnly
    /\ StoreOnly

(* _save_sessions_atomic: data, payload = json.dumps(data), _get_fernet,   *)
(* fernet.encrypt(payload)                                                 *)
T_serialize(t, newkey) ==
    /\ th[t].pc = "mutated"
    /\ keyfile' = get_fernet(use_encryption, keyfile, newkey)
    /\ th' = Moved(t, [th[t] EXCEPT
                         !.pc = "serialized",
                         !.payload = Payload(sessions,
                                             IF use_encryption THEN keyfile' ELSE Absent)])
    /\ UNCHANGED <<sessions, file, tmp, last>>
    /\ ThreadsOnly
    /\ StoreOnly

(* a save that opens the sessions file itself and writes it in place *)
T_open_target(t) ==
    /\ th[t].pc = "serialized"
    /\ file' = Partial
    /\ th' = Moved(t, [th[t] EXCEPT !.pc = "opened", !.fd = "file"])
    /\ UNCHANGED <<sessions, tmp, keyfile, last>>
    /\ ThreadsOnly
    /\ StoreOnly

(* open(tmp_path, "wb"): the file is created, or cut to no bytes where it  *)
(* exists                                                                  *)
T_open(t) ==
    /\ th[t].pc = "serialized"
    /\ tmp' = Partial
    /\ th' = Moved(t, [th[t] EXCEPT !.pc = "opened", !.fd = "tmp"])
    /\ UNCHANGED <<sessions, file, keyfile, last>>
    /\ ThreadsOnly
    /\ StoreOnly

(* f.write(payload) and the close at the end of the with block.  The bytes  *)
(* go to the file the thread opened, whatever name it has by now.           *)
T_write(t) ==
    /\ th[t].pc = "opened"
    /\ tmp' = IF th[t].fd = "tmp" THEN Overwrite(tmp, th[t].payload) ELSE tmp
    /\ file' = IF th[t].fd = "file" THEN Overwrite(file, th[t].payload) ELSE file
    /\ th' = Moved(t, [th[t] EXCEPT !.pc = "written", !.fd = "closed"])
    /\ UNCHANGED <<sessions, keyfile, last>>
    /\ ThreadsOnly
    /\ StoreOnly

(* Where the open files of the other threads are after os.replace. *)
Renamed(fd) ==
    CASE fd = "tmp" -> "file"
      [] fd = "file" -> "unlinked"
      [] OTHER -> fd

(* os.replace(tmp_path, self.sessions_file); FileNotFoundError is caught   *)
(* like every other exception.                                             *)
T_replace(t) ==
    /\ th[t].pc = "written"
    /\ IF tmp = Absent
       THEN /\ UNCHANGED <<file, tmp>>
            /\ th' = Moved(t, [th[t] EXCEPT !.pc = "saved",
                                            !.save = Logged("replace_failed")])
       ELSE /\ file' = tmp
            /\ tmp' = Absent
            /\ th' = [u \in Threads |->
                        IF u = t
                        THEN [th[t] EXCEPT !.pc = "saved", !.save = Logged("ok")]
                        ELSE [th[u] EXCEPT !.fd = Renamed(@)]]
    /\ UNCHANGED <<sessions, keyfile, last>>
    /\ ThreadsOnly
    /\ StoreOnly

(* the handler returns to its caller *)
T_return(t) ==
    /\ th[t].pc = "saved"
    /\ th' = Moved(t, [th[t] EXCEPT !.pc = "returned"])
    /\ last' = Called(th[t].op, th[t].sessionid, th[t].ret, th[t].save)
    /\ UNCHANGED <<sessions, file, tmp, keyfile>>
    /\ ThreadsOnly
    /\ StoreOnly

(* The process stops where it is and is started again: the memory is lost, *)
(* the files stay, SessionManager.__init__ loads the sessions file.        *)
Crash(newkey) ==
    /\ sessions' = load_sessions(file, use_encryption, keyfile)
    /\ keyfile' = IF file = Absent THEN keyfile
                  ELSE get_fernet(use_encryption, keyfile, newkey)
    /\ th' = [t \in Threads |-> IdleThread]
    /\ load_error' = load_failed(file, use_encryption, keyfile)
    /\ handed' = <<>>
    /\ last' = Called("crash", NoSession, NoSession, "not_called")
    /\ UNCHANGED <<file, tmp, use_encryption, now, faults>>
    /\ StoreOnly

---------------------------------------------------------------------------
(* RequestThrottler *)

ThrottlerOnly == UNCHANGED <<storeVars, retryVars, rateVars>>

RpmChoices == {20, 30, 60}

(* self._interval = 60.0 / max(1, requests_per_minute); exact for RpmChoices *)
Interval(requests_per_minute) == 60 \div Max(1, requests_per_minute)

TCalled(op, at, ret) == [op |-> op, at |-> at, ret |-> ret]

(* A thread that is not inside can_make_request. *)
IdleCaller == [pc |-> "idle", now |-> 0, next_allowed |-> 0, ret |-> 0]

(* The times of the last two releases, after one more release at time t. *)
Release(rel, t) == IF rel = <<>> THEN <<t>> ELSE <<rel[Len(rel)], t>>

(* can_make_request with > in place of >= *)
CanMakeRequestStrict(t, lts, iv) ==
    LET next_allowed == lts + iv
    IN  IF t > next_allowed
        THEN [ret |-> 0, last_ts |-> t]
        ELSE [ret |-> next_allowed - t, last_ts |-> lts]

(* can_make_request at time t: what it returns and the new _last_ts. *)
CanMakeRequest(t, lts, iv) ==
    LET next_allowed == lts + iv
    IN  IF t >= next_allowed
        THEN [ret |-> 0, last_ts |-> t]
        ELSE [ret |-> next_allowed - t, last_ts |-> lts]

can_make_request ==
    /\ LET r == CanMakeRequest(now, last_ts, interval)
       IN  /\ last_ts' = r.last_ts
           /\ released' = IF r.ret = 0 THEN Release(released, now) ELSE released
           /\ tlast' = TCalled("can_make_request", now, r.ret)
    /\ UNCHANGED <<now, rpm, interval, tth>>
    /\ ThrottlerOnly

(* wait_if_needed: sleeps for what can_make_request returned, then returns; *)
(* the request is released when it returns.                                *)
wait_if_needed(oversleep) ==
    /\ LET r == CanMakeRequest(now, last_ts, interval)
           back == IF r.ret > 0 THEN now + r.ret + oversleep ELSE now
       IN  /\ back <= MaxClock
           /\ r.ret = 0 => oversleep = 0
           /\ last_ts' = r.last_ts
           /\ now' = back
           /\ released' = Release(released, back)
           /\ tlast' = TCalled("wait_if_needed", now, r.ret)
    /\ UNCHANGED <<rpm, interval, tth>>
    /\ ThrottlerOnly

ThrottlerTick ==
    /\ now < MaxClock
    /\ now' = now + 1
    /\ tlast' = TCalled("tick", now, 0)
    /\ UNCHANGED <<rpm, interval, last_ts, released, tth>>
    /\ ThrottlerOnly

(* can_make_request, statement by statement: the calls of several threads  *)
(* on one throttler, which holds no lock.                                  *)

(* now = time.time() *)
C_now(t) ==
    /\ tth[t].pc \in {"idle", "returned"}
    /\ tth' = [tth EXCEPT ![t] = [IdleCaller EXCEPT !.pc = "timed", !.now = now]]
    /\ UNCHANGED <<now, rpm, interval, last_ts, released, tlast>>
    /\ ThrottlerOnly

(* next_allowed = self._last_ts + self._interval *)
C_next_allowed(t) ==
    /\ tth[t].pc = "timed"
    /\ tth' = [tth EXCEPT ![t] = [@ EXCEPT !.pc = "read",
                                           !.next_allowed = last_ts + interval]]
    /\ UNCHANGED <<now, rpm, interval, last_ts, released, tlast>>
    /\ ThrottlerOnly

(* if now >= next_allowed: self._last_ts = now; return 0.0                  *)
(* else: return next_allowed - now                                          *)
C_return(t) ==
    /\ tth[t].pc = "read"
    /\ IF tth[t].now >= tth[t].next_allowed
       THEN /\ last_ts' = tth[t].now
            /\ released' = Release(released, tth[t].now)
            /\ tth' = [tth EXCEPT ![t] = [@ EXCEPT !.pc = "returned", !.ret = 0]]
            /\ tlast' = TCalled("can_make_request", tth[t].now, 0)
       ELSE /\ UNCHANGED <<last_ts, released>>
            /\ tth' = [tth EXCEPT ![t] = [@ EXCEPT
                                            !.pc = "returned",
                                            !.ret = tth[t].next_allowed - tth[t].now]]
            /\ tlast' = TCalled("can_make_request", tth[t].now,
                                tth[t].next_allowed - tth[t].now)
    /\ UNCHANGED <<now, rpm, interval>>
    /\ ThrottlerOnly

---------------------------------------------------------------------------
(* intelligent_retry *)

RetryOnly == UNCHANGED <<now, storeVars, throttlerVars, rateVars>>

Policies ==
    [max_retries : 0..MaxRetries, base_delay : {1, 2}, max_delay : {5, 60}]

(* Exceptions func may raise.  status_code and response_status are 0 where *)
(* the attribute is missing or None; msg is str(e), word by word.          *)
NoError == [type |-> "None", status_code |-> 0, response_status |-> 0, msg |-> <<>>]

Errors ==
    { [type |-> "ConnectionError", status_code |-> 0, response_status |-> 0,
       msg |-> <<"Connection", "reset", "by", "peer">>],
      [type |-> "ClientError", status_code |-> 429, response_status |-> 0,
       msg |-> <<"Please", "wait", "a", "few", "minutes">>],
      [type |-> "HTTPError", status_code |-> 0, response_status |-> 429,
       msg |-> <<"Client", "Error">>],
      [type |-> "ChallengeRequired", status_code |-> 400, response_status |-> 0,
       msg |-> <<"challenge_required">>],
      [type |-> "FeedbackRequired", status_code |-> 400, response_status |-> 0,
       msg |-> <<"Action", "Temporarily", "Blocked">>],
      [type |-> "GatewayError", status_code |-> 502, response_status |-> 429,
       msg |-> <<"Bad", "Gateway">>] }

(* str.lower() on the words that occur in the messages of Errors *)
Lower(w) ==
    CASE w = "Connection" -> "connection"
      [] w = "Please" -> "please"
      [] w = "Client" -> "client"
      [] w = "Error" -> "error"
      [] w = "Action" -> "action"
      [] w = "Temporarily" -> "temporarily"
      [] w = "Blocked" -> "blocked"
      [] w = "Bad" -> "bad"
      [] w = "Gateway" -> "gateway"
      [] OTHER -> w

(* The alternatives of the regular expression, word by word. *)
Vocabulary ==
    { <<"rate", "limit">>, <<"too", "many", "requests">>,
      <<"temporarily", "blocked">>, <<"checkpoint_required">>,
      <<"challenge_required">>, <<"login", "required">>, <<"blocked">> }

(* re.search of the vocabulary in str(e).lower(): one of the alternatives  *)
(* occurs in the message.  Messages are words separated by single blanks,  *)
(* none of them holding a word of the vocabulary as a proper part.         *)
MatchesVocabulary(msg) ==
    LET m == [i \in 1..Len(msg) |-> Lower(msg[i])]
    IN  \E p \in Vocabulary : \E i \in 1..Len(m) :
            /\ i + Len(p) - 1 <= Len(m)
            /\ SubSeq(m, i, i + Len(p) - 1) = p

(* getattr(e, "status_code", None) or getattr(e.response, "status_code", None) *)
StatusCode(e) == IF e.status_code # 0 THEN e.status_code ELSE e.response_status

(* the classification without the search of the message *)
StatusOnlyRateLimit(e) == StatusCode(e) = 429

is_rate_limit(e) == StatusCode(e) = 429 \/ MatchesVocabulary(e.msg)

(* multiplier, in tenths *)
Multiplier(e, n) == IF is_rate_limit(e) THEN 20 + n * 12 ELSE 10 + n * 5

RECURSIVE Pow2(_)
Pow2(n) == IF n <= 0 THEN 1 ELSE 2 * Pow2(n - 1)

(* random.random() * 1.5, in tenths of a second *)
Jitters == {0, 7, 14}

(* the backoff without its cap min(max_delay, ...) *)
BackoffUncapped(p, e, n, jitter) ==
    p.base_delay * Pow2(n - 1) * Multiplier(e, n) + jitter

(* wait, in tenths of a second *)
Backoff(p, e, n, jitter) ==
    Min(p.max_delay * 10, p.base_delay * Pow2(n - 1) * Multiplier(e, n)) + jitter

Returned(v) == [kind |-> "returned", value |-> v, exc |-> NoError]
Raised(e) == [kind |-> "raised", value |-> "None", exc |-> e]
Running == [kind |-> "running", value |-> "None", exc |-> NoError]

(* the final error wrapped in an exception of the wrapper's own *)
RaiseWrapped(e) ==
    Raised([type |-> "RetryExhausted", status_code |-> e.status_code,
            response_status |-> e.response_status, msg |-> e.msg])

(* raise: the exception being handled reaches the caller as it is *)
Reraise(e) == Raised(e)

(* the test before the raise, with > in place of >= *)
ExhaustedLate(n, max_retries) == n > max_retries

(* if attempt >= max_retries *)
Exhausted(n, max_retries) == n >= max_retries

(* the caller calls the wrapped function *)
CallWrapper ==
    /\ rpc \in {"idle", "returned", "raised"}
    /\ rpc' = "loop"
    /\ attempt' = 0
    /\ calls' = 0
    /\ failures' = 0
    /\ sleeps' = 0
    /\ err' = NoError
    /\ wait' = 0
    /\ outcome' = Running
    /\ UNCHANGED policy
    /\ RetryOnly

(* while attempt < max_retries; falling off the loop returns None *)
LoopTest ==
    /\ rpc = "loop"
    /\ IF attempt < policy.max_retries
       THEN rpc' = "try" /\ UNCHANGED outcome
       ELSE rpc' = "returned" /\ outcome' = Returned("None")
    /\ UNCHANGED <<policy, attempt, calls, failures, sleeps, err, wait>>
    /\ RetryOnly

(* return func(...) *)
FuncReturns(v) ==
    /\ rpc = "try"
    /\ calls' = calls + 1
    /\ rpc' = "returned"
    /\ outcome' = Returned(v)
    /\ UNCHANGED <<policy, attempt, failures, sleeps, err, wait>>
    /\ RetryOnly

(* a handler that tests attempt >= max_retries before it sleeps *)
FuncRaisesTestsBeforeSleep(e, jitter) ==
    /\ rpc = "try"
    /\ calls' = calls + 1
    /\ failures' = failures + 1
    /\ attempt' = attempt + 1
    /\ err' = e
    /\ wait' = Backoff(policy, e, attempt', jitter)
    /\ IF Exhausted(attempt', policy.max_retries)
       THEN rpc' = "raised" /\ outcome' = Reraise(e)
       ELSE rpc' = "sleep" /\ UNCHANGED outcome
    /\ UNCHANGED <<policy, sleeps>>
    /\ RetryOnly

(* except Exception as e: attempt += 1; ...; wait = ... *)
FuncRaises(e, jitter) ==
    /\ rpc = "try"
    /\ calls' = calls + 1
    /\ failures' = failures + 1
    /\ attempt' = attempt + 1
    /\ err' = e
    /\ wait' = Backoff(policy, e, attempt', jitter)
    /\ rpc' = "sleep"
    /\ UNCHANGED <<policy, sleeps, outcome>>
    /\ RetryOnly

(* time.sleep(wait) returns; if attempt >= max_retries: raise *)
SleepDone ==
    /\ rpc = "sleep"
    /\ sleeps' = sleeps + 1
    /\ IF Exhausted(attempt, policy.max_retries)
       THEN rpc' = "raised" /\ outcome' = Reraise(err)
       ELSE rpc' = "loop" /\ UNCHANGED outcome
    /\ UNCHANGED <<policy, attempt, calls, failures, err, wait>>
    /\ RetryOnly

---------------------------------------------------------------------------
(* AdaptiveRateLimiter *)

RateOnly == UNCHANGED <<storeVars, throttlerVars, retryVars>>

Strategies == {"conservative", "aggressive", "adaptive"}

(* _get_base_delay: (base_min, base_max), in tenths of a second *)
get_base_delay(strat) ==
    IF strat = "conservative" THEN <<35, 70>>
    ELSE IF strat = "aggressive" THEN <<10, 30>>
    ELSE <<20, 50>>

(* the comparison with >= in place of > *)
RateAtLeast(s, f, tenths) ==
    IF s + f > 0 THEN 10 * s >= tenths * (s + f) ELSE 10 >= tenths

(* success_rate > tenths / 10, where success_rate is s / total, or 1.0     *)
(* when total is 0                                                         *)
RateAbove(s, f, tenths) ==
    IF s + f > 0 THEN 10 * s > tenths * (s + f) ELSE 10 > tenths

(* the multiplier computed for every strategy, not only for ADAPTIVE *)
DelayMultiplierAnyStrategy(strat, s, f, cf) ==
    (IF RateAbove(s, f, 9) THEN 8 ELSE IF RateAbove(s, f, 7) THEN 10 ELSE 15)
    + (IF cf > 0 THEN Min(cf * 5, 60) ELSE 0)

(* _calculate_delay's multiplier, in tenths *)
DelayMultiplier(strat, s, f, cf) ==
    IF strat = "adaptive"
    THEN (IF RateAbove(s, f, 9) THEN 8 ELSE IF RateAbove(s, f, 7) THEN 10 ELSE 15)
         + (IF cf > 0 THEN Min(cf * 5, 60) ELSE 0)
    ELSE 10

(* random.uniform(delay_min, delay_max) at the draws 0, 1/2 and 1 *)
Draws == {0, 1, 2}

(* _calculate_delay, in hundredths of a second *)
calculate_delay(strat, s, f, cf, u) ==
    LET base == get_base_delay(strat)
        multiplier == DelayMultiplier(strat, s, f, cf)
        delay_min == base[1] * multiplier
        delay_max == base[2] * multiplier
    IN  delay_min + ((delay_max - delay_min) * u) \div 2

NoStats ==
    [success_count |-> 0, failure_count |-> 0, consecutive_failures |-> 0,
     success_rate |-> <<0, 1>>]

RCalled(op, delay, stats) == [op |-> op, delay |-> delay, stats |-> stats]

(* wait: time.sleep(delay); self.last_request_time = time.time() *)
rate_wait(u) ==
    /\ LET delay == calculate_delay(strategy, success_count, failure_count,
                                    consecutive_failures, u)
           back == now + (delay + 99) \div 100
       IN  /\ back <= MaxRateClock
           /\ now' = back
           /\ last_request_time' = back
           /\ rlast' = RCalled("wait", delay, NoStats)
    /\ UNCHANGED <<strategy, success_count, failure_count, consecutive_failures, rlog>>
    /\ RateOnly

(* record_success without the line self.consecutive_failures = 0 *)
record_success_keeps_streak ==
    /\ Len(rlog) < MaxRecords
    /\ success_count' = success_count + 1
    /\ rlog' = Append(rlog, "success")
    /\ rlast' = RCalled("record_success", 0, NoStats)
    /\ UNCHANGED <<now, strategy, failure_count, consecutive_failures, last_request_time>>
    /\ RateOnly

record_success ==
    /\ Len(rlog) < MaxRecords
    /\ success_count' = success_count + 1
    /\ consecutive_failures' = 0
    /\ rlog' = Append(rlog, "success")
    /\ rlast' = RCalled("record_success", 0, NoStats)
    /\ UNCHANGED <<now, strategy, failure_count, last_request_time>>
    /\ RateOnly

record_failure ==
    /\ Len(rlog) < MaxRecords
    /\ failure_count' = failure_count + 1
    /\ consecutive_failures' = consecutive_failures + 1
    /\ rlog' = Append(rlog, "failure")
    /\ rlast' = RCalled("record_failure", 0, NoStats)
    /\ UNCHANGED <<now, strategy, success_count, last_request_time>>
    /\ RateOnly

(* get_stats; success_rate is the fraction <<numerator, denominator>> *)
get_stats ==
    /\ LET total == success_count + failure_count
       IN  rlast' = RCalled("get_stats", 0,
                       [success_count |-> success_count,
                        failure_count |-> failure_count,
                        consecutive_failures |-> consecutive_failures,
                        success_rate |-> IF total > 0 THEN <<success_count, total>>
                                         ELSE <<0, 1>>])
    /\ UNCHANGED <<now, strategy, success_count, failure_count,
                   consecutive_failures, last_request_time, rlog>>
    /\ RateOnly

---------------------------------------------------------------------------
(* Specifications *)

StoreIdle ==
    /\ sessions = <<>>
    /\ file = Absent
    /\ tmp = Absent
    /\ keyfile = Absent
    /\ use_encryption = FALSE
    /\ last = Called("init", NoSession, NoSession, "not_called")
    /\ faults = 0
    /\ load_error = FALSE
    /\ handed = <<>>
    /\ th = [t \in Threads |-> IdleThread]

ThrottlerIdle ==
    /\ rpm = 30
    /\ interval = Interval(30)
    /\ last_ts = 0
    /\ released = <<>>
    /\ tlast = TCalled("init", 0, 0)
    /\ tth = [t \in Threads |-> IdleCaller]

RetryIdle ==
    /\ policy = [max_retries |-> 5, base_delay |-> 2, max_delay |-> 60]
    /\ rpc = "idle"
    /\ attempt = 0
    /\ calls = 0
    /\ failures = 0
    /\ sleeps = 0
    /\ err = NoError
    /\ wait = 0
    /\ outcome = Running

RateIdle ==
    /\ strategy = "adaptive"
    /\ success_count = 0
    /\ failure_count = 0
    /\ consecutive_failures = 0
    /\ last_request_time = 0
    /\ rlog = <<>>
    /\ rlast = RCalled("init", 0, NoStats)

(* SessionManager(sessions_file) where sessions_file does not exist *)
Init ==
    /\ sessions = <<>>
    /\ file = Absent
    /\ tmp = Absent
    /\ keyfile = Absent
    /\ use_encryption \in BOOLEAN
    /\ last = Called("init", NoSession, NoSession, "not_called")
    /\ faults = 0
    /\ load_error = FALSE
    /\ handed = <<>>
    /\ th = [t \in Threads |-> IdleThread]
    /\ now = 1
    /\ ThrottlerIdle
    /\ RetryIdle
    /\ RateIdle

(* One call of the store by its single caller, or the clock moving on, on a *)
(* file system that does not fail.                                         *)
Next ==
    \/ Tick
    \/ \E a \in Adds, k \in Keys : add_session(a[1], a[2], "ok", k)
    \/ \E k \in Keys : get_next_session("ok", k)
    \/ \E id \in SessionIds, k \in Keys : mark_session_success(id, "ok", k)
    \/ \E id \in SessionIds, k \in Keys : mark_session_failure(id, "ok", k)
    \/ \E id \in SessionIds, k \in Keys : reactivate_session(id, "ok", k)

Spec == Init /\ [][Next]_vars

(* What the sessions file may hold when the process starts: nothing, a     *)
(* truncated payload, a pool saved in the clear or under the key file's    *)
(* key or under another key, a document whose dicts lack keys.             *)
StoredPool ==
    << [SessionData(1, Username(1), 1) EXCEPT !.last_used = 1, !.success_count = 1] >>

StoredFiles ==
    { Absent, Partial,
      Payload(StoredPool, Absent),
      Payload(StoredPool, [kind |-> "key", key |-> "k1"]),
      Payload(StoredPool, [kind |-> "key", key |-> "k0"]),
      [kind |-> "json", doc |-> << << <<"sessionid", 1>> >> >>] }

StoredKeys == {Absent, [kind |-> "key", key |-> "k1"]}

(* The sessionids the callers use on the failing file system. *)
FaultyIds == {1}

(* SessionManager(sessions_file) on files left by earlier runs *)
FaultyInit ==
    /\ use_encryption \in BOOLEAN
    /\ \E f \in StoredFiles, kf \in StoredKeys :
         /\ file = f
         /\ keyfile = (IF f = Absent THEN kf ELSE get_fernet(use_encryption, kf, "k1"))
         /\ sessions = load_sessions(f, use_encryption, kf)
         /\ load_error = load_failed(f, use_encryption, kf)
    /\ handed = <<>>
    /\ tmp = Absent
    /\ last = Called("construct", NoSession, NoSession, "not_called")
    /\ faults = 0
    /\ th = [t \in Threads |-> IdleThread]
    /\ now = 1
    /\ ThrottlerIdle
    /\ RetryIdle
    /\ RateIdle

(* The operating system fails at most MaxFaults saves. *)
MayFail(o) == o = "ok" \/ faults < MaxFaults

(* One call of the store by its single caller, the process starting again, *)
(* on a file system that may fail a save at any of its steps.              *)
FaultyNext ==
    \/ \E k \in Keys : construct(k)
    \/ \E id \in FaultyIds, k \in Keys, o \in SaveOutcomes :
         MayFail(o) /\ add_session(id, Username(id), o, k)
    \/ \E k \in Keys, o \in SaveOutcomes : MayFail(o) /\ get_next_session(o, k)
    \/ \E id \in FaultyIds, k \in Keys, o \in SaveOutcomes :
         MayFail(o) /\ mark_session_success(id, o, k)
    \/ \E id \in FaultyIds, k \in Keys, o \in SaveOutcomes :
         MayFail(o) /\ mark_session_failure(id, o, k)
    \/ \E id \in FaultyIds, k \in Keys, o \in SaveOutcomes :
         MayFail(o) /\ reactivate_session(id, o, k)

FaultySpec == FaultyInit /\ [][FaultyNext]_vars

(* The sessionids the callers use where the process may stop inside a call. *)
CrashIds == {1}

(* One thread calls the store, statement by statement; the process may     *)
(* stop after any statement and start again.  The file system never fails. *)
CrashNext ==
    \/ \E k \in Keys : Crash(k)
    \/ \E id \in CrashIds : T_add_session(1, id, Username(id))
    \/ T_get_next_session(1)
    \/ T_touch(1)
    \/ \E id \in CrashIds : T_mark_session_success(1, id)
    \/ \E id \in CrashIds : T_mark_session_failure(1, id)
    \/ \E id \in CrashIds : T_reactivate_session(1, id)
    \/ \E k \in Keys : T_serialize(1, k)
    \/ T_open(1)
    \/ T_write(1)
    \/ T_replace(1)
    \/ T_return(1)

CrashSpec == Init /\ [][CrashNext]_vars

(* The pool after `n` add_session calls at time 1, saved. *)
AddedPool(n) == [i \in 1..n |-> SessionData(i, Username(i), 1)]

(* A store with one or two sessions added, and two threads about to call   *)
(* it, one call each.                                                      *)
ConcInit ==
    /\ use_encryption = FALSE
    /\ \E n \in 1..MaxSessions :
         /\ sessions = AddedPool(n)
         /\ file = Payload(AddedPool(n), Absent)
    /\ tmp = Absent
    /\ keyfile = Absent
    /\ last = Called("add_session", 1, NoSession, "ok")
    /\ faults = 0
    /\ load_error = FALSE
    /\ handed = <<>>
    /\ th = [t \in Threads |-> IdleThread]
    /\ now = 2
    /\ ThrottlerIdle
    /\ RetryIdle
    /\ RateIdle

ConcNext ==
    \/ \E t \in Threads, id \in SessionIds : T_add_session(t, id, Username(id))
    \/ \E t \in Threads : T_get_next_session(t)
    \/ \E t \in Threads : T_touch(t)
    \/ \E t \in Threads, id \in SessionIds : T_mark_session_success(t, id)
    \/ \E t \in Threads, id \in SessionIds : T_mark_session_failure(t, id)
    \/ \E t \in Threads, id \in SessionIds : T_reactivate_session(t, id)
    \/ \E t \in Threads, k \in Keys : T_serialize(t, k)
    \/ \E t \in Threads : T_open(t)
    \/ \E t \in Threads : T_write(t)
    \/ \E t \in Threads : T_replace(t)
    \/ \E t \in Threads : T_return(t)

ConcSpec == ConcInit /\ [][ConcNext]_vars

(* RequestThrottler(requests_per_minute) *)
ThrottlerInit ==
    /\ rpm \in RpmChoices
    /\ interval = Interval(rpm)
    /\ last_ts = 0
    /\ released = <<>>
    /\ tlast = TCalled("init", 0, 0)
    /\ tth = [t \in Threads |-> IdleCaller]
    /\ now = ThrottlerStart
    /\ StoreIdle
    /\ RetryIdle
    /\ RateIdle

ThrottlerNext ==
    \/ ThrottlerTick
    \/ can_make_request
    \/ \E oversleep \in 0..MaxOversleep : wait_if_needed(oversleep)

ThrottlerSpec == ThrottlerInit /\ [][ThrottlerNext]_vars

(* @intelligent_retry(max_retries, base_delay, max_delay) on some func *)
RetryInit ==
    /\ policy \in Policies
    /\ rpc = "idle"
    /\ attempt = 0
    /\ calls = 0
    /\ failures = 0
    /\ sleeps = 0
    /\ err = NoError
    /\ wait = 0
    /\ outcome = Running
    /\ now = 1
    /\ StoreIdle
    /\ ThrottlerIdle
    /\ RateIdle

RetryNext ==
    \/ CallWrapper
    \/ LoopTest
    \/ \E v \in {"ok"} : FuncReturns(v)
    \/ \E e \in Errors, jitter \in Jitters : FuncRaises(e, jitter)
    \/ SleepDone

RetrySpec == RetryInit /\ [][RetryNext]_vars

(* Two threads call can_make_request on one throttler; the clock moves on. *)
ThrottlerConcNext ==
    \/ ThrottlerTick
    \/ \E t \in Threads : C_now(t)
    \/ \E t \in Threads : C_next_allowed(t)
    \/ \E t \in Threads : C_return(t)

ThrottlerConcSpec == ThrottlerInit /\ [][ThrottlerConcNext]_vars

(* AdaptiveRateLimiter(strategy) *)
RateInit ==
    /\ strategy \in Strategies
    /\ success_count = 0
    /\ failure_count = 0
    /\ consecutive_failures = 0
    /\ last_request_time = 0
    /\ rlog = <<>>
    /\ rlast = RCalled("init", 0, NoStats)
    /\ now = 1
    /\ StoreIdle
    /\ ThrottlerIdle
    /\ RetryIdle

RateNext ==
    \/ record_success
    \/ record_failure
    \/ \E u \in Draws : rate_wait(u)
    \/ get_stats

RateSpec == RateInit /\ [][RateNext]_vars

(* A log of record calls that leaves the counters at s, f and cf. *)
LogOf(s, f, cf) ==
    [i \in 1..(s + f) |-> IF i <= f - cf THEN "failure"
                          ELSE IF i <= f - cf + s THEN "success"
                          ELSE "failure"]

(* A rate limiter that has recorded up to MaxSuccesses successes and       *)
(* MaxFailures failures, the last cf of them in a row.                     *)
DelayInit ==
    /\ strategy \in Strategies
    /\ success_count \in 0..MaxSuccesses
    /\ failure_count \in 0..MaxFailures
    /\ consecutive_failures \in 0..failure_count
    /\ (success_count = 0 => consecutive_failures = failure_count)
    /\ last_request_time = 0
    /\ rlog = LogOf(success_count, failure_count, consecutive_failures)
    /\ rlast = RCalled("init", 0, NoStats)
    /\ now = 1
    /\ StoreIdle
    /\ ThrottlerIdle
    /\ RetryIdle

(* wait and get_stats on those counters *)
DelayNext ==
    \/ \E u \in Draws : rate_wait(u)
    \/ get_stats

DelaySpec == DelayInit /\ [][DelayNext]_vars


---------------------------------------------------------------------------
(* Properties of the session store, checked under Spec *)

InPool(id) == IndexOf(sessions, id) # 0
Persisted == load_sessions(file, use_encryption, keyfile) = sessions

(* C1: mark_session_failure on a session of the pool adds 1 to its          *)
(* failure_count and sets is_active to False exactly when the new count is  *)
(* at least 5, leaving is_active as it was below 5; and no call of the      *)
(* store turns an active session inactive unless its count has reached 5.   *)
C1_MarkFailureThreshold ==
    [][ /\ \A id \in SessionIds :
             (last'.op = "mark_session_failure" /\ last'.sessionid = id /\ InPool(id))
             => LET i == IndexOf(sessions, id)
                    n == sessions[i].failure_count + 1
                IN  /\ sessions'[i].failure_count = n
                    /\ n >= 5 => ~sessions'[i].is_active
                    /\ n < 5 => (sessions'[i].is_active = sessions[i].is_active)
        /\ \A i \in 1..Len(sessions) :
             (sessions[i].is_active /\ ~sessions'[i].is_active)
             => sessions'[i].failure_count >= 5
      ]_vars

(* C1 witness: the fifth failure of a session has just deactivated it *)
C1_Witness ==
    /\ last.op = "mark_session_failure"
    /\ InPool(last.sessionid)
    /\ sessions[IndexOf(sessions, last.sessionid)].failure_count = 5
    /\ ~sessions[IndexOf(sessions, last.sessionid)].is_active

C3_MarkSuccess ==
    /\ [][ \A id \in SessionIds :
             (last'.op = "mark_session_success" /\ last'.sessionid = id /\ InPool(id))
             => LET i == IndexOf(sessions, id)
                IN  /\ sessions'[i].success_count = sessions[i].success_count + 1
                    /\ sessions'[i].failure_count =
                          (IF sessions[i].failure_count >= 1
                           THEN sessions[i].failure_count - 1 ELSE 0)
                    /\ sessions'[i].is_active
         ]_vars
    /\ [](\A i \in 1..Len(sessions) :
             sessions[i].failure_count >= 0 /\ sessions[i].success_count >= 0)

(* C3 witness: a success recorded for a session without failures *)
C3_Witness ==
    /\ last.op = "mark_session_success"
    /\ InPool(last.sessionid)
    /\ sessions[IndexOf(sessions, last.sessionid)].failure_count = 0
    /\ sessions[IndexOf(sessions, last.sessionid)].success_count = 1

(* C4: with an active session in the pool, get_next_session returns an      *)
(* active session whose (failure_count, last_used) is minimal among the     *)
(* active ones, sets its last_used to the current time and has the pool     *)
(* persisted when it returns.                                               *)
C4_NextSessionLeastLoaded ==
    [][ (last'.op = "get_next_session" /\ \E j \in 1..Len(sessions) : sessions[j].is_active)
        => /\ last'.ret # NoSession
           /\ InPool(last'.ret)
           /\ LET i == IndexOf(sessions, last'.ret)
              IN  /\ sessions[i].is_active
                  /\ \A j \in 1..Len(sessions) :
                       sessions[j].is_active
                       => \/ sessions[i].failure_count < sessions[j].failure_count
                          \/ /\ sessions[i].failure_count = sessions[j].failure_count
                             /\ sessions[i].last_used <= sessions[j].last_used
                  /\ sessions'[i].last_used = now
           /\ Persisted'
      ]_vars

(* C4 witness: the session returned has fewer failures than another active  *)
(* session that was never used                                              *)
C4_Witness ==
    /\ last.op = "get_next_session"
    /\ last.ret # NoSession
    /\ \E i, j \in 1..Len(sessions) :
         /\ sessions[i].sessionid = last.ret
         /\ sessions[i].last_used = now
         /\ sessions[j].is_active
         /\ sessions[j].last_used = 0
         /\ sessions[j].failure_count > sessions[i].failure_count

(* C5: get_next_session returns None exactly when no session of the pool is *)
(* active (the empty pool included); then it changes no session and no      *)
(* file.  The calls that record a failure return nothing.                   *)
C5_NoActiveSessions ==
    [][ /\ last'.op = "get_next_session"
           => /\ (last'.ret = NoSession)
                 <=> (\A j \in 1..Len(sessions) : ~sessions[j].is_active)
              /\ last'.ret = NoSession
                 => /\ sessions' = sessions
                    /\ file' = file
                    /\ tmp' = tmp
                    /\ last'.save = "not_called"
        /\ last'.op = "mark_session_failure" => last'.ret = NoSession
      ]_vars

(* C5 witness: None returned on a pool whose sessions are all inactive *)
C5_Witness ==
    /\ last.op = "get_next_session"
    /\ last.ret = NoSession
    /\ Len(sessions) = MaxSessions
    /\ \A j \in 1..Len(sessions) : ~sessions[j].is_active

(* C6: add_session with a new sessionid appends one active session with     *)
(* zero counters and persists the pool; with a sessionid of the pool it     *)
(* changes neither the pool nor the file; the sessionids of the pool are    *)
(* pairwise distinct.                                                       *)
C6_AddSession ==
    /\ [][ \A id \in SessionIds :
             (last'.op = "add_session" /\ last'.sessionid = id)
             => IF \E i \in 1..Len(sessions) : sessions[i].sessionid = id
                THEN /\ sessions' = sessions
                     /\ file' = file
                     /\ tmp' = tmp
                     /\ last'.save = "not_called"
                ELSE /\ Len(sessions') = Len(sessions) + 1
                     /\ SubSeq(sessions', 1, Len(sessions)) = sessions
                     /\ sessions'[Len(sessions')].sessionid = id
                     /\ sessions'[Len(sessions')].is_active
                     /\ sessions'[Len(sessions')].success_count = 0
                     /\ sessions'[Len(sessions')].failure_count = 0
                     /\ Persisted'
         ]_vars
    /\ [](\A i, j \in 1..Len(sessions) :
             sessions[i].sessionid = sessions[j].sessionid => i = j)

(* C6 witness: an add_session of a sessionid already in a pool of two *)
C6_Witness ==
    /\ last.op = "add_session"
    /\ last.save = "not_called"
    /\ Len(sessions) = 2
    /\ sessions[2].sessionid = last.sessionid


---------------------------------------------------------------------------
(* Properties of the throttler, checked under ThrottlerSpec *)

(* C7: two requests the throttler releases to its single caller (a          *)
(* can_make_request that returns 0, a wait_if_needed that returns) are at   *)
(* least _interval seconds apart.                                           *)
C7_ReleasesSpaced ==
    Len(released) = 2 => released[2] - released[1] >= interval

(* C8: can_make_request returns 0 and sets _last_ts to now if and only if   *)
(* now >= _last_ts + _interval; otherwise it returns the positive           *)
(* remainder _last_ts + _interval - now and leaves _last_ts as it was.      *)
C8_CanMakeRequest ==
    [][ tlast'.op = "can_make_request"
        => /\ tlast'.at = now
           /\ IF now >= last_ts + interval
              THEN tlast'.ret = 0 /\ last_ts' = now
              ELSE /\ tlast'.ret = last_ts + interval - now
                   /\ tlast'.ret > 0
                   /\ last_ts' = last_ts
      ]_vars

(* C8 witness: a request admitted exactly one interval after the request    *)
(* admitted before it                                                       *)
C8_Witness ==
    /\ tlast.op = "can_make_request"
    /\ tlast.ret = 0
    /\ tlast.at = now
    /\ last_ts = now
    /\ Len(released) = 2
    /\ released[2] = now
    /\ released[1] = now - interval

---------------------------------------------------------------------------
(* Properties of the retry wrapper, checked under RetrySpec *)

Finished == rpc \in {"returned", "raised"}

(* C9: with max_retries >= 1, one call of the wrapper invokes func at most  *)
(* max_retries times; it raises only after exactly max_retries invocations, *)
(* all failed, and a call whose invocations all failed ends raising.        *)
C9_AtMostMaxRetries ==
    policy.max_retries >= 1
    => /\ calls <= policy.max_retries
       /\ rpc = "raised" => (calls = policy.max_retries /\ failures = calls)
       /\ (Finished /\ failures = calls) => rpc = "raised"

(* C9 witness: max_retries = 3, func failed three times, the call raised *)
C9_Witness ==
    /\ rpc = "raised"
    /\ policy.max_retries = 3
    /\ calls = 3
    /\ failures = 3

C11_ReturnsOnlyOnSuccess ==
    /\ Finished => outcome.kind \in {"returned", "raised"}
    /\ rpc = "returned"
       => /\ outcome.kind = "returned"
          /\ calls = failures + 1
          /\ outcome.value = "ok"

(* C12: after the attempt-th failure the wrapper sleeps                     *)
(* min(max_delay, base_delay * 2^(attempt-1) * multiplier) plus a jitter in *)
(* [0, 1.5), so each sleep is at least 0 and less than max_delay + 1.5      *)
(* seconds (wait is in tenths of a second).                                 *)
C12_BackoffCapped ==
    rpc = "sleep"
    => /\ attempt >= 1
       /\ \E jitter \in 0..14 :
            wait = jitter +
                   (IF policy.base_delay * Pow2(attempt - 1) * Multiplier(err, attempt)
                         <= policy.max_delay * 10
                    THEN policy.base_delay * Pow2(attempt - 1) * Multiplier(err, attempt)
                    ELSE policy.max_delay * 10)
       /\ wait >= 0
       /\ wait < policy.max_delay * 10 + 15

(* C12 witness: the third backoff is cut to max_delay = 5 s and the jitter  *)
(* is 1.4 s                                                                 *)
C12_Witness ==
    /\ rpc = "sleep"
    /\ attempt = 3
    /\ policy.max_delay = 5
    /\ wait = 64

(* The error carries status 429, on itself or on its response. *)
Carries429(e) == e.status_code = 429 \/ e.response_status = 429

(* The status the wrapper looks at is 429: the error's own status, or its   *)
(* response's status when the error has none.                               *)
Seen429(e) ==
    e.status_code = 429 \/ (e.status_code = 0 /\ e.response_status = 429)

(* The pre-jitter backoff for a multiplier given in tenths. *)
PreJitter(p, n, multiplier) ==
    Min(p.max_delay * 10, p.base_delay * Pow2(n - 1) * multiplier)

(* C13 as stated: a failure is rate-limit-class (multiplier                 *)
(* 2.0 + 1.2 * attempt) if and only if the error or its response carries    *)
(* status 429 or its message matches the vocabulary, and generic-class      *)
(* (multiplier 1.0 + 0.5 * attempt) otherwise.                              *)
C13_RateLimitIff429Anywhere ==
    rpc = "sleep"
    => \E jitter \in 0..14 :
         wait = jitter +
                PreJitter(policy, attempt,
                          IF Carries429(err) \/ MatchesVocabulary(err.msg)
                          THEN 20 + 12 * attempt ELSE 10 + 5 * attempt)

(* C13 amended: a failure is rate-limit-class if and only if the status the *)
(* wrapper looks at is 429 (the error's own status, or the status of its    *)
(* response when the error has no status of its own) or its message matches *)
(* the vocabulary; the multiplier is 2.0 + 1.2 * attempt for                *)
(* rate-limit-class and 1.0 + 0.5 * attempt for generic-class, and for the  *)
(* same attempt and policy the pre-jitter backoff of a rate-limit-class     *)
(* failure is never smaller than that of a generic-class failure.           *)
C13_RateLimitClass ==
    /\ rpc = "sleep"
       => \E jitter \in 0..14 :
            wait = jitter +
                   PreJitter(policy, attempt,
                             IF Seen429(err) \/ MatchesVocabulary(err.msg)
                             THEN 20 + 12 * attempt ELSE 10 + 5 * attempt)
    /\ \A n \in 1..(MaxRetries + 1) : \A e1, e2 \in Errors :
         (is_rate_limit(e1) /\ ~is_rate_limit(e2))
         => Backoff(policy, e1, n, 0) >= Backoff(policy, e2, n, 0)

(* C13 witness: an error with status 400 whose message reads "Action        *)
(* Temporarily Blocked" got the rate-limit multiplier at the first attempt  *)
C13_Witness ==
    /\ rpc = "sleep"
    /\ attempt = 1
    /\ err.type = "FeedbackRequired"
    /\ policy.base_delay = 1
    /\ policy.max_delay = 60
    /\ wait = 32

---------------------------------------------------------------------------
(* Properties of persistence, checked under FaultySpec *)

MutatingOps ==
    {"add_session", "get_next_session", "mark_session_success",
     "mark_session_failure", "reactivate_session"}

(* The file is not one _load_sessions can read under the present settings. *)
Unreadable(f) ==
    \/ f.kind = "partial"
    \/ use_encryption /\ f.kind = "json"
    \/ use_encryption /\ f.kind = "fernet" /\ (keyfile = Absent \/ f.key # keyfile.key)
    \/ ~use_encryption /\ f.kind = "fernet"

C16_PersistenceErrorsSwallowed ==
    /\ [](last.op = "construct"
          => /\ file = Absent => sessions = <<>>
             /\ (file # Absent /\ Unreadable(file)) => sessions = <<>>)
    /\ [](last.save \in SaveOutcomes \cup {"not_called"})
    /\ [][ \A id \in FaultyIds :
             (/\ last'.op \in MutatingOps
              /\ last'.sessionid = id
              /\ last'.save \in SaveOutcomes \ {"ok"})
             => /\ file' = file
                /\ last'.op = "mark_session_failure"
                   => sessions' = FailureMarked(sessions, id)
                /\ last'.op = "mark_session_success"
                   => sessions' = SuccessMarked(sessions, id)
                /\ last'.op = "reactivate_session"
                   => sessions' = Reactivated(sessions, id)
                /\ (last'.op = "add_session" /\ ~InPool(id))
                   => /\ Len(sessions') = Len(sessions) + 1
                      /\ sessions'[Len(sessions')].sessionid = id
         ]_vars

(* C16 witness: the save of an add_session failed at the rename; the call  *)
(* returned, the pool holds the new session and the file still cannot be   *)
(* read                                                                    *)
C16_Witness ==
    /\ last.op = "add_session"
    /\ last.save = "replace_failed"
    /\ Len(sessions) = 1
    /\ file = Partial
    /\ tmp # Absent
    /\ tmp.kind \in {"json", "fernet"}

---------------------------------------------------------------------------
(* Properties of a save interrupted by a crash, checked under CrashSpec *)

BeforeRename == {"picked", "mutated", "serialized", "opened", "written"}

(* C14: at every step of a call before the rename of its save the sessions *)
(* file holds the complete pool saved last, which is the pool the call     *)
(* found, and a process that stops there loads that pool when it starts    *)
(* again; after the rename the file holds the complete new pool; the       *)
(* sessions file never holds a payload written in part.                    *)
C14_SaveAtomicUnderCrash ==
    /\ [](file.kind \in {"absent", "json", "fernet"})
    /\ [](th[1].pc \in BeforeRename
          => load_sessions(file, use_encryption, keyfile) = th[1].before)
    /\ []((th[1].pc \in {"saved", "returned"} /\ th[1].save = "ok")
          => /\ file = th[1].payload
             /\ load_sessions(file, use_encryption, keyfile) = sessions)
    /\ [][ (th[1].pc # "idle" /\ th'[1].pc = "idle")
           => /\ file' = file
              /\ sessions' = (IF th[1].pc \in BeforeRename
                              THEN th[1].before ELSE sessions)
         ]_vars

(* C14 witness: the process stopped between the open and the write of the  *)
(* temporary file while recording the second failure of a session; started *)
(* again, it holds the session with one failure                            *)
C14_Witness ==
    /\ last.op = "crash"
    /\ tmp = Partial
    /\ th[1].pc = "idle"
    /\ Len(sessions) = 1
    /\ sessions[1].failure_count = 1
    /\ file = Payload(sessions, IF use_encryption THEN keyfile ELSE Absent)

---------------------------------------------------------------------------
(* Properties of concurrent calls of the store, checked under ConcSpec *)

AllReturned == \A t \in Threads : th[t].pc = "returned"

(* C17: two calls of one store made by two threads at the same time act as *)
(* if one ran after the other: when both have returned, the sessions file  *)
(* loads to the in-memory pool, which holds the mutations of both.         *)
C17_ConcurrentCallsSerialized ==
    (AllReturned /\ \A t \in Threads : th[t].save = "ok")
    => load_sessions(file, use_encryption, keyfile) = sessions

(* C18: two get_next_session calls made at the same time on a pool of two  *)
(* active sessions with equal failure_count are not handed the same        *)
(* session.                                                                *)
C18_RacingCallersGetDistinctSessions ==
    (/\ AllReturned
     /\ \A t \in Threads : th[t].op = "get_next_session"
     /\ Len(sessions) = 2)
    => th[1].ret # th[2].ret

---------------------------------------------------------------------------
(* Properties of concurrent calls of the throttler, checked under          *)
(* ThrottlerConcSpec                                                       *)

Distance(a, b) == IF a >= b THEN a - b ELSE b - a

(* C19: when two threads call can_make_request on one throttler at the     *)
(* same time, the read of _last_ts and its update exclude each other: the  *)
(* two callers are not both answered 0.0 at times less than _interval      *)
(* apart.                                                                  *)
C19_NoTwoAdmittedWithinInterval ==
    (\A t \in Threads : tth[t].pc = "returned" /\ tth[t].ret = 0)
    => Distance(tth[1].now, tth[2].now) >= interval

---------------------------------------------------------------------------
(* Properties of the adaptive rate limiter, checked under RateSpec *)

RECURSIVE Count(_, _)
Count(log, what) ==
    IF log = <<>> THEN 0
    ELSE (IF Head(log) = what THEN 1 ELSE 0) + Count(Tail(log), what)

(* The record_failure calls at the end of the log, since the last          *)
(* record_success.                                                         *)
RECURSIVE Streak(_)
Streak(log) ==
    IF log = <<>> \/ log[Len(log)] = "success" THEN 0
    ELSE 1 + Streak(SubSeq(log, 1, Len(log) - 1))

(* C20: record_success adds 1 to success_count and sets                    *)
(* consecutive_failures to 0 whatever the streak was; record_failure adds  *)
(* 1 to failure_count and to consecutive_failures; wait and get_stats      *)
(* change none of the counters; so 0 <= consecutive_failures <=            *)
(* failure_count and consecutive_failures is the number of record_failure  *)
(* calls since the last record_success.                                    *)
C20_CountersAndStreak ==
    /\ [][ /\ rlast'.op = "record_success"
              => /\ success_count' = success_count + 1
                 /\ consecutive_failures' = 0
                 /\ failure_count' = failure_count
           /\ rlast'.op = "record_failure"
              => /\ failure_count' = failure_count + 1
                 /\ consecutive_failures' = consecutive_failures + 1
                 /\ success_count' = success_count
           /\ rlast'.op \in {"wait", "get_stats"}
              => UNCHANGED <<success_count, failure_count, consecutive_failures>>
         ]_vars
    /\ [](/\ 0 <= consecutive_failures
          /\ consecutive_failures <= failure_count
          /\ consecutive_failures = Streak(rlog)
          /\ failure_count = Count(rlog, "failure")
          /\ success_count = Count(rlog, "success"))

(* C20 witness: a record_success has just ended a streak of three failures *)
(* that followed a wait                                                    *)
C20_Witness ==
    /\ rlast.op = "record_success"
    /\ rlog = <<"success", "failure", "failure", "failure", "success">>
    /\ consecutive_failures = 0
    /\ failure_count = 3
    /\ success_count = 2
    /\ last_request_time > 0

---------------------------------------------------------------------------
(* Properties of the delays and the statistics, checked under DelaySpec *)

(* C21 as stated: get_stats returns the three counters and success_rate =  *)
(* success_count / (success_count + failure_count), which is 1.0 when      *)
(* nothing has been recorded yet.                                          *)
C21_StatsRateOneOnEmptyHistory ==
    rlast.op = "get_stats"
    => /\ rlast.stats.success_count = success_count
       /\ rlast.stats.failure_count = failure_count
       /\ rlast.stats.consecutive_failures = consecutive_failures
       /\ IF success_count + failure_count > 0
          THEN rlast.stats.success_rate[1] * (success_count + failure_count)
                  = success_count * rlast.stats.success_rate[2]
          ELSE rlast.stats.success_rate[1] = rlast.stats.success_rate[2]

(* The rate-based multiplier of the claim, in tenths: 0.8 above 0.9, 1.0   *)
(* above 0.7 up to 0.9, 1.5 up to 0.7; the rate of an empty history is 1.0 *)
Tier(s, f) ==
    IF s + f = 0 THEN 8
    ELSE IF 10 * s > 9 * (s + f) THEN 8
    ELSE IF 10 * s > 7 * (s + f) THEN 10
    ELSE 15

(* C22: under the ADAPTIVE strategy a wait without consecutive failures    *)
(* draws its delay from the base range 2.0 to 5.0 s times 0.8 exactly when *)
(* the success rate is above 0.9, times 1.0 when it is above 0.7 and at    *)
(* most 0.9, times 1.5 when it is at most 0.7; 9 successes and 1 failure   *)
(* take 1.0, an empty history takes 0.8 (delays in hundredths of a         *)
(* second).                                                                *)
C22_AdaptiveTiers ==
    /\ (rlast.op = "wait" /\ strategy = "adaptive" /\ consecutive_failures = 0)
       => /\ rlast.delay >= 20 * Tier(success_count, failure_count)
          /\ rlast.delay <= 50 * Tier(success_count, failure_count)
          /\ rlast.delay \in {20 * Tier(success_count, failure_count),
                              35 * Tier(success_count, failure_count),
                              50 * Tier(success_count, failure_count)}
    /\ DelayMultiplier("adaptive", 9, 1, 0) = 10
    /\ DelayMultiplier("adaptive", 0, 0, 0) = 8
    /\ DelayMultiplier("adaptive", 7, 3, 0) = 15

(* C22 witness: with 9 successes and 1 failure, the failure first, a wait  *)
(* slept 2.0 s, the least delay of the 1.0 tier                            *)
C22_Witness ==
    /\ rlast.op = "wait"
    /\ strategy = "adaptive"
    /\ success_count = 9
    /\ failure_count = 1
    /\ consecutive_failures = 0
    /\ rlast.delay = 200

(* C23: the delay of a wait lies in [min * m, max * m] of the strategy's   *)
(* base range, with m = 1.0 for CONSERVATIVE and AGGRESSIVE whatever the   *)
(* counters and m = rate-based multiplier + min(consecutive_failures *     *)
(* 0.5, 6.0) for ADAPTIVE; an ADAPTIVE delay is at least 1.6 s and at most *)
(* 37.5 s.                                                                 *)
C23_DelayWithinRange ==
    rlast.op = "wait"
    => LET penalty == IF consecutive_failures * 5 <= 60
                      THEN consecutive_failures * 5 ELSE 60
           m == IF strategy = "adaptive"
                THEN Tier(success_count, failure_count) + penalty ELSE 10
           lo == CASE strategy = "conservative" -> 35
                   [] strategy = "aggressive" -> 10
                   [] strategy = "adaptive" -> 20
           hi == CASE strategy = "conservative" -> 70
                   [] strategy = "aggressive" -> 30
                   [] strategy = "adaptive" -> 50
       IN  /\ lo * m <= rlast.delay
           /\ rlast.delay <= hi * m
           /\ strategy = "adaptive" => (160 <= rlast.delay /\ rlast.delay <= 3750)

(* C23 witness: after 13 failures in a row the penalty stays at 6.0 and a  *)
(* wait slept the greatest delay there is, 37.5 s                          *)
C23_Witness ==
    /\ rlast.op = "wait"
    /\ strategy = "adaptive"
    /\ consecutive_failures = 13
    /\ rlast.delay = 3750

---------------------------------------------------------------------------
(* Further properties of the session store, checked under Spec *)

(* C24: no call of the store removes a session: every session of the pool  *)
(* is in the pool after the call, at its place and with its sessionid; the *)
(* pool never shrinks.                                                     *)
C24_NoSessionRemoved ==
    [][ /\ Len(sessions') >= Len(sessions)
        /\ \A i \in 1..Len(sessions) :
             sessions'[i].sessionid = sessions[i].sessionid
      ]_vars

(* C24 witness: both sessions of the pool are deactivated, one of them by  *)
(* the call that has just returned, and both are still in the pool         *)
C24_Witness ==
    /\ last.op = "mark_session_failure"
    /\ Len(sessions) = 2
    /\ \A i \in 1..2 : ~sessions[i].is_active /\ sessions[i].failure_count >= 5
    /\ sessions[IndexOf(sessions, last.sessionid)].failure_count = 5

SameButFor(pool1, pool2, id) ==
    /\ Len(pool1) = Len(pool2)
    /\ \A i \in 1..Len(pool1) : pool1[i].sessionid # id => pool2[i] = pool1[i]

(* C30: mark_session_success, mark_session_failure and reactivate_session  *)
(* change only the session with the given sessionid; with a sessionid that *)
(* is not in the pool they change no session, return and still save the    *)
(* pool; get_next_session changes nothing but the last_used of the session *)
(* it returns.                                                             *)
C30_FrameOfMarkCalls ==
    [][ /\ \A id \in SessionIds :
             (/\ last'.op \in {"mark_session_success", "mark_session_failure",
                               "reactivate_session"}
              /\ last'.sessionid = id)
             => /\ SameButFor(sessions, sessions', id)
                /\ ~InPool(id) => /\ sessions' = sessions
                                  /\ last'.save = "ok"
                                  /\ last'.ret = NoSession
                                  /\ load_sessions(file', use_encryption', keyfile') = sessions
        /\ (last'.op = "get_next_session" /\ last'.ret # NoSession)
           => /\ SameButFor(sessions, sessions', last'.ret)
              /\ LET i == IndexOf(sessions, last'.ret)
                 IN  sessions' = [sessions EXCEPT ![i].last_used = sessions'[i].last_used]
        /\ (last'.op = "get_next_session" /\ last'.ret = NoSession)
           => sessions' = sessions
      ]_vars

(* C30 witness: a failure reported for a sessionid that is not in the pool *)
(* of one session, which has a success and a failure of its own; the pool  *)
(* was saved                                                               *)
C30_Witness ==
    /\ last.op = "mark_session_failure"
    /\ last.save = "ok"
    /\ ~InPool(last.sessionid)
    /\ Len(sessions) = 1
    /\ sessions[1].success_count = 1
    /\ sessions[1].failure_count = 1
    /\ Persisted

---------------------------------------------------------------------------
(* Backoff sleeps of the retry wrapper, checked under RetrySpec *)

(* C29: the wrapper sleeps once after every failed invocation of func, the *)
(* last one included: the error reaches the caller only from the end of a  *)
(* sleep, after max_retries sleeps, and when the call is over the number   *)
(* of sleeps equals the number of failed invocations.                      *)
C29_OneSleepPerFailure ==
    [][ /\ rpc' = "sleep" => sleeps' + 1 = failures'
        /\ rpc' \in {"loop", "try", "returned", "raised"} => sleeps' = failures'
        /\ rpc' = "raised" => /\ rpc = "sleep"
                              /\ sleeps' = sleeps + 1
                              /\ sleeps' = policy.max_retries
                              /\ calls' = policy.max_retries
      ]_vars

(* C29 witness: three invocations failed, the last one with a 429, and the *)
(* error was raised after the third sleep                                  *)
C29_Witness ==
    /\ rpc = "raised"
    /\ policy.max_retries = 3
    /\ failures = 3
    /\ sleeps = 3
    /\ StatusCode(err) = 429

---------------------------------------------------------------------------
(* Concurrent saves, checked under ConcSpec *)

SavesOver == \A t \in Threads : th[t].pc \in {"saved", "returned"}

(* C27: when the saves of two concurrent calls are over, whatever the      *)
(* order of their open, write and rename steps was, the sessions file      *)
(* holds one complete serialized pool, and no save failed because the      *)
(* other one had renamed the temporary file.                               *)
C27_ConcurrentSavesKeepFileWhole ==
    SavesOver =>
        /\ file.kind \in {"json", "fernet"}
        /\ \A t \in Threads : th[t].save # "replace_failed"

---------------------------------------------------------------------------
(* Loading and the file it could not read, checked under FaultySpec *)

(* The record is in the file as _load_sessions reads it with this key. *)
StoredIn(f, kf, s) ==
    \E i \in 1..Len(load_sessions(f, use_encryption, kf)) :
        load_sessions(f, use_encryption, kf)[i] = s

(* C28: constructing a SessionManager leaves the sessions file as it is;   *)
(* after a load that failed on an existing file and fell back to the empty *)
(* pool, the first call that saves replaces the file by the serialization  *)
(* of the in-memory pool alone: what the file held before is not in it.    *)
C28_FallbackFileOverwritten ==
    [][ /\ last'.op = "construct" => file' = file
        /\ (/\ last.op = "construct"
            /\ load_error
            /\ last'.op \in MutatingOps
            /\ last'.save = "ok")
           => /\ file # Absent
              /\ sessions = <<>>
              /\ file' = Payload(sessions', IF use_encryption THEN keyfile' ELSE Absent)
              /\ file' # file
              /\ Len(sessions') <= 1
              /\ \A i \in 1..Len(StoredPool) : ~StoredIn(file', keyfile', StoredPool[i])
      ]_vars

(* C28 witness: the instance could not load its file, add_session then     *)
(* saved a pool of one new session; the file holds that session and not    *)
(* the record with a success that was stored before                        *)
C28_Witness ==
    /\ load_error
    /\ last.op = "add_session"
    /\ last.save = "ok"
    /\ Len(sessions) = 1
    /\ sessions[1].success_count = 0
    /\ file = Payload(sessions, IF use_encryption THEN keyfile ELSE Absent)
    /\ load_sessions(file, use_encryption, keyfile) = sessions

---------------------------------------------------------------------------
(* Rotation among equally healthy sessions, checked under Spec *)

(* The last n sessionids of handed. *)
LastHanded(n) == SubSeq(handed, Len(handed) - n + 1, Len(handed))

(* The clock was strictly ahead of every last_used at each of the calls    *)
(* that handed out w, and is so now: the calls of w were made at           *)
(* increasing times, later than the last_used of the other active          *)
(* sessions and earlier than now.                                          *)
ClockIncreasing(w) ==
    /\ \A j \in 1..(Len(w) - 1) : w[j][2] < w[j + 1][2]
    /\ \A j \in 1..Len(w) : w[j][2] < now
    /\ \A i \in 1..Len(sessions) :
         (sessions[i].is_active /\ \A j \in 1..Len(w) : w[j][1] # sessions[i].sessionid)
         => \A j \in 1..Len(w) : sessions[i].last_used < w[j][2]

===========================================================================
